---- MODULE Spec2Model ----
(***************************************************************************)
(* Model of src/content/sync/sync-job.ts: performSyncJob, prepareSyncJob,  *)
(* SyncJob.perform, syncItemAndNotes, syncRegularItem, saveItemToDatabase. *)
(* One action per stretch of code between two awaits; the remote API, the  *)
(* item-data store and the progress window are modelled by what the job    *)
(* reads from and writes to them.                                          *)
(***************************************************************************)
EXTENDS Integers, Sequences, FiniteSets, TLC

\* ---------------------------------------------------------------- bounds
MaxPages == 2      \* remote pages that can ever be created
MaxBatch == 3      \* identifiers handed to one performSyncJob call

\* ------------------------------------------------------- host data model
None == "none"

RegularItems == {"R1", "R2"}
NoteItems    == {"N1", "N2", "E", "P", "O"}
\* "X" and "G" are identifiers whose item no longer exists; "N2", "E" and
\* "P" are further child notes of "R1" never themselves handed to
\* performSyncJob
ItemIDs      == RegularItems \cup {"N1", "O", "X"}
LiveItems    == RegularItems \cup NoteItems

isNote(item) == item \in NoteItems

parentID(item) ==
  CASE item = "N1" -> "R1"
    [] item = "N2" -> "R1"
    [] item = "E"  -> "R1"
    [] item = "P"  -> "R1"
    [] item = "O"  -> "X"
    [] OTHER       -> None

\* Zotero.Items.get(id): the item, or a falsy value when it does not resolve
ItemsGetOne(id) == IF id \in LiveItems THEN id ELSE None

\* Zotero.Items.get(ids): identifiers that do not resolve are dropped
ItemsGet(ids) == SelectSeq(ids, LAMBDA id : id \in LiveItems)


\* noteItem.getNote(): HTML as a sequence of tokens
getNote(note) ==
  CASE note = "N1" -> <<"<p>", "a", "</p>">>
    [] note = "N2" -> <<"<b>", "b", "</b>">>
    [] note = "P"  -> <<"<p>", "</p>">>
    [] note = "E"  -> << >>
    [] OTHER       -> << >>

Tags == {"<p>", "</p>", "<b>", "</b>"}
Whitespace == {"\n"}
\* '\n---\n'
SEPARATOR == <<"\n", "---", "\n">>

\* parseFromString(html, 'text/html').body: an HTML parser ignores the
\* white space that precedes the first tag or text of the document, and
\* puts everything from there on into the body
RECURSIVE parseFromString(_)
parseFromString(html) ==
  IF html # << >> /\ Head(html) \in Whitespace
  THEN parseFromString(Tail(html))
  ELSE html

\* body.textContent: the text of the body, markup dropped, in order
textContent(body) == SelectSeq(body, LAMBDA t : t \notin Tags)

\* doc.body.textContent || ''
sanitize(html) == textContent(parseFromString(html))

\* variant: the separator is put between notes only, not after the last
RECURSIVE concatNotesJoined(_)
concatNotesJoined(noteIDs) ==
  LET ids == SelectSeq(noteIDs, LAMBDA n : ItemsGetOne(n) # None)
  IN IF ids = << >> THEN << >>
     ELSE IF Len(ids) = 1 THEN getNote(ids[1])
     ELSE getNote(Head(ids)) \o SEPARATOR \o concatNotesJoined(Tail(ids))

RECURSIVE concatNotes(_)
concatNotes(noteIDs) ==
  IF noteIDs = << >> THEN << >>
  ELSE LET noteItem == ItemsGetOne(Head(noteIDs))
       IN (IF noteItem # None THEN getNote(noteItem) \o SEPARATOR ELSE << >>)
            \o concatNotes(Tail(noteIDs))

\* ------------------------------------------------------------ error values
ObjectNotFound == "object_not_found"
OtherAPIError  == "rate_limited"
RetrieveError  == "database_retrieve_failed"
MissingPref    == "missing_required_pref"
ReadContentMsg == "enable_read_content_capability"

Error(code) == [name |-> "Error", code |-> code]

\* variant: the wrapper loses the item it was given
ItemSyncErrorNoItem(cause, item) ==
  [name |-> "ItemSyncError", cause |-> cause, item |-> None]

\* class ItemSyncError: the cause and the item being iterated
ItemSyncError(cause, item) ==
  [name |-> "ItemSyncError", cause |-> cause, item |-> item]

isNotionErrorWithCode(error, code) == error.code = code

\* ------------------------------------------------------------------ state
VARIABLES
  pc,           \* position of the running job: idle, prepare, loop, build,
                \* update, create, tag, link, done
  lastCall,     \* how the latest performSyncJob call began: none, empty
                \* (empty input set), unresolved (nothing resolved), job
  items,        \* SyncJob.items: the resolved batch
  index,        \* entries of the batch already completed
  cur,          \* locals of the running per-item sync
  pagesDB,      \* remote database: page id -> [live, parent, owner, note,
                \* linked]; owner is the item the page was created for and
                \* linked tells that a back-link to the page was ever saved
  linkPage,     \* item-data: page id held by the item's back-link, 0 if none
  tagged,       \* item-data: item carries the synced tag
  zotero_note,  \* item.zotero_note
  attached,     \* item.getNotes(false): the note ids attached to each item
  pw,           \* the ProgressWindow of the latest job
  trace         \* calls made by the latest job, in order

vars == <<pc, lastCall, items, index, cur, pagesDB, linkPage,
          tagged, zotero_note, attached, pw, trace>>

\* item.getNotes(false)
getNotes(item) == attached[item]

\* the notes of "R1" throughout a job
R1Notes == <<"N1", "G", "N2">>

NoCur == [target |-> None, pageID |-> 0, note |-> << >>,
          full |-> FALSE, page |-> 0]

NoWindow == [total |-> 0, state |-> "none", message |-> "", item |-> None]

\* one call, as the trace records it: db is the parent database of a create
Ev(op, step, item, page, res) ==
  [op |-> op, step |-> step, item |-> item, page |-> page, res |-> res,
   db |-> None]

\* getRequiredNoteroPref(NoteroPref.notionDatabaseID)
databaseID == "database"

Batches ==
  {s \in UNION {[1..n -> ItemIDs] : n \in 0..MaxBatch} :
     \A i, j \in DOMAIN s : i # j => s[i] # s[j]}

Init ==
  /\ pc = "idle"
  /\ lastCall = "none"
  /\ items = << >>
  /\ index = 0
  /\ cur = NoCur
  /\ pagesDB = << >>
  /\ linkPage = [i \in LiveItems |-> 0]
  /\ tagged = [i \in LiveItems |-> FALSE]
  /\ zotero_note = [i \in LiveItems |-> << >>]
  /\ attached = [i \in LiveItems |-> IF i = "R1" THEN R1Notes ELSE << >>]
  /\ pw = NoWindow
  /\ trace = << >>

\* ------------------------------------------------------------- item-data
\* the page id held by the item's back-link attachment, 0 when it has none
getNotionPageID(item) == linkPage[item]

\* ------------------------------------------------- performSyncJob's catch
\* variant: the catch block swallows the error and the job is marked complete
CatchAsComplete(error, win, tr) ==
  /\ pw' = [win EXCEPT !.state = "complete"]
  /\ trace' = Append(tr, Ev("complete", 0, None, 0, "ok"))
  /\ pc' = "done"
  /\ cur' = NoCur

\* catch (error) { ... progressWindow.fail(errorMessage, failedItem) }
Catch(error, win, tr) ==
  LET cause      == IF error.name = "ItemSyncError" THEN error.cause ELSE error
      failedItem == IF error.name = "ItemSyncError" THEN error.item ELSE None
      errorMessage == cause.code
  IN /\ pw' = [win EXCEPT !.state = "failed", !.message = errorMessage,
                          !.item = failedItem]
     /\ trace' = Append(tr, Ev("fail", 0, failedItem, 0, errorMessage))
     /\ pc' = "done"
     /\ cur' = NoCur

\* variant: the wrapper carries the item that was synced, not the entry
RaiseForTarget(error, tr) == Catch(ItemSyncError(error, cur.target), pw, tr)

\* catch (error) { throw new ItemSyncError(error, item) } in perform()
Raise(error, tr) == Catch(ItemSyncError(error, items[index + 1]), pw, tr)

\* variant: the early return is missing
EarlyReturnNever(resolved) == FALSE

\* if (!items.length) return;
EarlyReturn(resolved) == Len(resolved) = 0

\* performSyncJob up to prepareSyncJob: item resolution, the early return,
\* new ProgressWindow(items.length)
performSyncJob(ids) ==
  /\ UNCHANGED attached
  /\ pc = "idle"
  /\ UNCHANGED <<pagesDB, linkPage, tagged, zotero_note, index, cur>>
  /\ LET resolved == ItemsGet(ids)
     IN IF EarlyReturn(resolved)
        THEN /\ lastCall' = IF ids = << >> THEN "empty" ELSE "unresolved"
             /\ UNCHANGED <<pc, items, pw, trace>>
        ELSE /\ lastCall' = "job"
             /\ items' = resolved
             /\ pw' = [NoWindow EXCEPT !.total = Len(resolved),
                                       !.state = "running"]
             /\ trace' = <<Ev("ProgressWindow", 0, None, 0, "ok")>>
             /\ pc' = "prepare"

\* variant: a failed schema retrieval is ignored and the job goes on
prepareSyncJobIgnoringFailure ==
  /\ UNCHANGED attached
  /\ pc = "prepare"
  /\ UNCHANGED <<lastCall, items, index, pagesDB, linkPage, tagged,
                 zotero_note>>
  /\ LET t0 == Append(trace, Ev("getNotionClient", 0, None, 0, "ok"))
     IN \/ Catch(Error(MissingPref), pw, t0)
        \/ /\ \E res \in {"ok", RetrieveError} :
                trace' = Append(t0, Ev("databases.retrieve", 0, None, 0, res))
           /\ pc' = "loop"
           /\ UNCHANGED <<pw, cur>>

\* prepareSyncJob: getNotionClient, getRequiredNoteroPref, then
\* await retrieveDatabaseProperties(notion, databaseID)
prepareSyncJob ==
  /\ UNCHANGED attached
  /\ pc = "prepare"
  /\ UNCHANGED <<lastCall, items, index, pagesDB, linkPage, tagged,
                 zotero_note>>
  /\ LET t0 == Append(trace, Ev("getNotionClient", 0, None, 0, "ok"))
     IN \/ Catch(Error(MissingPref), pw, t0)
        \/ Catch(Error(RetrieveError), pw,
                 Append(t0, Ev("databases.retrieve", 0, None, 0,
                               RetrieveError)))
        \/ /\ trace' = Append(t0, Ev("databases.retrieve", 0, None, 0, "ok"))
           /\ pc' = "loop"
           /\ UNCHANGED <<pw, cur>>

\* variant: every entry is synced itself, notes included
SyncTargetSelf(item) == item

\* variant: a note whose parent does not resolve is synced itself
SyncTargetOrSelf(item) ==
  IF isNote(item) /\ ItemsGetOne(parentID(item)) # None
  THEN ItemsGetOne(parentID(item)) ELSE item

\* the item perform() hands to syncItemAndNotes for a batch entry, if any
SyncTarget(item) ==
  IF isNote(item) THEN ItemsGetOne(parentID(item)) ELSE item

\* variant: the note field is not assigned before the page write
performItemStaleNote ==
  /\ UNCHANGED attached
  /\ pc = "loop"
  /\ index < Len(items)
  /\ UNCHANGED <<lastCall, items, pagesDB, linkPage, tagged, pw>>
  /\ LET step == index + 1
         item == items[step]
         t1   == Append(trace, Ev("updateText", step, item, 0, "ok"))
         tgt  == SyncTarget(item)
     IN IF tgt = None
        THEN /\ trace' = Append(t1, Ev("updateProgress", step, item, 0, "ok"))
             /\ index' = index + 1
             /\ UNCHANGED <<pc, cur, zotero_note>>
        ELSE /\ UNCHANGED zotero_note
             /\ cur' = [NoCur EXCEPT !.target = tgt,
                                     !.pageID = getNotionPageID(tgt)]
             /\ trace' = t1 \o
                  <<Ev("zotero_note", step, tgt, 0, "ok"),
                    Ev("getNotionPageID", step, tgt, getNotionPageID(tgt),
                       "ok")>>
             /\ pc' = "build"
             /\ UNCHANGED index

\* one iteration of perform() up to the first await of the per-item sync:
\* updateText, the note redirect, syncItemAndNotes' note loop, and
\* saveItemToDatabase's page id lookup
performItem ==
  /\ UNCHANGED attached
  /\ pc = "loop"
  /\ index < Len(items)
  /\ UNCHANGED <<lastCall, items, pagesDB, linkPage, tagged, pw>>
  /\ LET step == index + 1
         item == items[step]
         t1   == Append(trace, Ev("updateText", step, item, 0, "ok"))
         tgt  == SyncTarget(item)
     IN IF tgt = None
        THEN /\ trace' = Append(t1, Ev("updateProgress", step, item, 0, "ok"))
             /\ index' = index + 1
             /\ UNCHANGED <<pc, cur, zotero_note>>
        ELSE /\ zotero_note' =
                  [zotero_note EXCEPT
                     ![tgt] = sanitize(concatNotes(getNotes(tgt)))]
             /\ cur' = [NoCur EXCEPT !.target = tgt,
                                     !.pageID = getNotionPageID(tgt)]
             /\ trace' = t1 \o
                  <<Ev("zotero_note", step, tgt, 0, "ok"),
                    Ev("getNotionPageID", step, tgt, getNotionPageID(tgt),
                       "ok")>>
             /\ pc' = "build"
             /\ UNCHANGED index

\* variant: perform() may return before the last entry
performDoneEarly ==
  /\ UNCHANGED attached
  /\ pc = "loop"
  /\ index <= Len(items)
  /\ pw' = [pw EXCEPT !.state = "complete"]
  /\ trace' = Append(trace, Ev("complete", 0, None, 0, "ok"))
  /\ pc' = "done"
  /\ UNCHANGED <<lastCall, items, index, cur, pagesDB, linkPage,
                 tagged, zotero_note>>

\* perform() returned: progressWindow.complete()
performDone ==
  /\ UNCHANGED attached
  /\ pc = "loop"
  /\ index = Len(items)
  /\ pw' = [pw EXCEPT !.state = "complete"]
  /\ trace' = Append(trace, Ev("complete", 0, None, 0, "ok"))
  /\ pc' = "done"
  /\ UNCHANGED <<lastCall, items, index, cur, pagesDB, linkPage,
                 tagged, zotero_note>>

\* variant: the stored page id is ignored and a page is always created
ShouldUpdateNever(pageID) == FALSE

\* variant: an update is attempted even without a stored page id
ShouldUpdateAlways(pageID) == TRUE

\* if (pageID)
ShouldUpdate(pageID) == pageID # 0

\* const properties = await buildProperties({..., item, ...})
buildProperties ==
  /\ UNCHANGED attached
  /\ pc = "build"
  /\ cur' = [cur EXCEPT !.note = zotero_note[cur.target]]
  /\ trace' = Append(trace, Ev("buildProperties", index + 1, cur.target, 0,
                               "ok"))
  /\ pc' = IF ShouldUpdate(cur.pageID) THEN "update" ELSE "create"
  /\ UNCHANGED <<lastCall, items, index, pagesDB, linkPage,
                 tagged, zotero_note, pw>>

PageExists(p) == p \in DOMAIN pagesDB /\ pagesDB[p].live

Shape(full) == IF full THEN "full" ELSE "partial"

\* variant: object-not-found is rethrown like any other error
FallThroughNever(error) == FALSE

\* variant: every update error is swallowed and a page created
FallThroughAlways(error) == TRUE

\* the update error after which saveItemToDatabase goes on to create
FallThrough(error) == isNotionErrorWithCode(error, ObjectNotFound)

\* catch (error) { if (!isNotionErrorWithCode(...)) throw error; }
UpdateFailed(error) ==
  LET tr == Append(trace, Ev("pages.update", index + 1, cur.target,
                             cur.pageID, error.code))
  IN IF FallThrough(error)
     THEN /\ trace' = tr
          /\ pc' = "create"
          /\ UNCHANGED <<cur, pw>>
     ELSE Raise(error, tr)

\* return await this.notion.pages.update({ page_id: pageID, properties })
pagesUpdate ==
  /\ UNCHANGED attached
  /\ pc = "update"
  /\ UNCHANGED <<lastCall, items, index, linkPage, tagged,
                 zotero_note>>
  /\ \/ /\ PageExists(cur.pageID)
        /\ \E full \in BOOLEAN :
             /\ pagesDB' = [pagesDB EXCEPT ![cur.pageID].note = cur.note]
             /\ cur' = [cur EXCEPT !.full = full, !.page = cur.pageID]
             /\ trace' = Append(trace, Ev("pages.update", index + 1,
                                          cur.target, cur.pageID,
                                          Shape(full)))
             /\ pc' = "tag"
             /\ UNCHANGED pw
     \/ /\ ~PageExists(cur.pageID)
        /\ UpdateFailed(Error(ObjectNotFound))
        /\ UNCHANGED pagesDB
     \/ /\ UpdateFailed(Error(OtherAPIError))
        /\ UNCHANGED pagesDB

\* return await this.notion.pages.create({ parent: {database_id}, properties })
pagesCreate ==
  /\ UNCHANGED attached
  /\ pc = "create"
  /\ UNCHANGED <<lastCall, items, index, linkPage, tagged,
                 zotero_note>>
  /\ \/ /\ Len(pagesDB) < MaxPages
        /\ \E full \in BOOLEAN :
             LET id == Len(pagesDB) + 1
             IN /\ pagesDB' = Append(pagesDB, [live |-> TRUE,
                                               parent |-> databaseID,
                                               owner |-> cur.target,
                                               note |-> cur.note,
                                               linked |-> FALSE])
                /\ cur' = [cur EXCEPT !.full = full, !.page = id]
                /\ trace' = Append(trace,
                                    [Ev("pages.create", index + 1, cur.target,
                                        id, Shape(full))
                                       EXCEPT !.db = databaseID])
                /\ pc' = "tag"
                /\ UNCHANGED pw
     \/ /\ Raise(Error(OtherAPIError),
                 Append(trace, [Ev("pages.create", index + 1, cur.target, 0,
                                   OtherAPIError)
                                  EXCEPT !.db = databaseID]))
        /\ UNCHANGED pagesDB

\* variant: every response is taken for a full page
isFullPageAlways(response) == TRUE

isFullPage(response) == response.full

\* variant: the response shape is tested before the tag is written
saveNotionTagIfFullPage ==
  /\ UNCHANGED attached
  /\ pc = "tag"
  /\ UNCHANGED <<lastCall, items, index, pagesDB, linkPage,
                 zotero_note>>
  /\ IF isFullPage(cur)
     THEN /\ tagged' = [tagged EXCEPT ![cur.target] = TRUE]
          /\ trace' = Append(trace, Ev("saveNotionTag", index + 1,
                                       cur.target, 0, "ok"))
          /\ pc' = "link"
          /\ UNCHANGED <<cur, pw>>
     ELSE /\ Raise(Error(ReadContentMsg), trace)
          /\ UNCHANGED tagged

\* await saveNotionTag(item); if (isFullPage(response)) ... else throw
saveNotionTag ==
  /\ UNCHANGED attached
  /\ pc = "tag"
  /\ tagged' = [tagged EXCEPT ![cur.target] = TRUE]
  /\ UNCHANGED <<lastCall, items, index, pagesDB, linkPage,
                 zotero_note>>
  /\ LET tr == Append(trace, Ev("saveNotionTag", index + 1, cur.target, 0,
                                "ok"))
     IN IF isFullPage(cur)
        THEN /\ trace' = tr
             /\ pc' = "link"
             /\ UNCHANGED <<cur, pw>>
        ELSE Raise(Error(ReadContentMsg), tr)

\* variant: the step is reported as done before the back-link is saved
saveNotionLinkAttachmentLate ==
  /\ UNCHANGED attached
  /\ pc = "link"
  /\ linkPage' = [linkPage EXCEPT ![cur.target] = cur.page]
  /\ trace' = trace \o
       <<Ev("updateProgress", index + 1, items[index + 1], 0, "ok"),
         Ev("saveNotionLinkAttachment", index + 1, cur.target, cur.page,
            "ok")>>
  /\ index' = index + 1
  /\ cur' = NoCur
  /\ pc' = "loop"
  /\ pagesDB' = IF PageExists(cur.page)
                THEN [pagesDB EXCEPT ![cur.page].linked = TRUE]
                ELSE pagesDB
  /\ UNCHANGED <<lastCall, items, tagged, zotero_note, pw>>

\* await saveNotionLinkAttachment(item, appURL); then updateProgress(step)
saveNotionLinkAttachment ==
  /\ UNCHANGED attached
  /\ pc = "link"
  /\ linkPage' = [linkPage EXCEPT ![cur.target] = cur.page]
  /\ trace' = trace \o
       <<Ev("saveNotionLinkAttachment", index + 1, cur.target, cur.page, "ok"),
         Ev("updateProgress", index + 1, items[index + 1], 0, "ok")>>
  /\ index' = index + 1
  /\ cur' = NoCur
  /\ pc' = "loop"
  /\ pagesDB' = IF PageExists(cur.page)
                THEN [pagesDB EXCEPT ![cur.page].linked = TRUE]
                ELSE pagesDB
  /\ UNCHANGED <<lastCall, items, tagged, zotero_note, pw>>

DeletedPage ==
  [live |-> FALSE, parent |-> None, owner |-> None, note |-> << >>,
   linked |-> FALSE]

\* the remote page is deleted in the workspace, outside the plugin
RemotePageDeleted(p) ==
  /\ UNCHANGED attached
  /\ p \in DOMAIN pagesDB
  /\ pagesDB[p].live
  /\ pagesDB' = [pagesDB EXCEPT ![p] = DeletedPage]
  /\ UNCHANGED <<pc, lastCall, items, index, cur, linkPage,
                 tagged, zotero_note, pw, trace>>

\* performSyncJob's promise settles; the job's context is discarded
returned ==
  /\ UNCHANGED attached
  /\ pc = "done"
  /\ pc' = "idle"
  /\ items' = << >>
  /\ index' = 0
  /\ pw' = NoWindow
  /\ trace' = << >>
  /\ UNCHANGED <<lastCall, cur, pagesDB, linkPage, tagged, zotero_note>>

Next ==
  \/ \E ids \in Batches : performSyncJob(ids)
  \/ prepareSyncJob
  \/ returned
  \/ performItem
  \/ performDone
  \/ buildProperties
  \/ pagesUpdate
  \/ pagesCreate
  \/ saveNotionTag
  \/ saveNotionLinkAttachment
  \/ \E p \in 1..MaxPages : RemotePageDeleted(p)

Spec == Init /\ [][Next]_vars

\* ------------------------------------------- the note loop on its own
MaxNotes == 3
\* ids a note listing can hold: child notes of "R1", and the stale id "G"
AttachedIDs == {"N1", "N2", "E", "P", "G"}

NoteLists ==
  {s \in UNION {[1..n -> AttachedIDs] : n \in 0..MaxNotes} :
     \A i, j \in DOMAIN s : i # j => s[i] # s[j]}

NoteInit ==
  /\ pc = "idle"
  /\ lastCall = "none"
  /\ items = << >>
  /\ index = 0
  /\ cur = NoCur
  /\ pagesDB = << >>
  /\ linkPage = [i \in LiveItems |-> 0]
  /\ tagged = [i \in LiveItems |-> FALSE]
  /\ zotero_note = [i \in LiveItems |-> << >>]
  /\ \E l \in NoteLists :
       attached = [i \in LiveItems |-> IF i = "R1" THEN l ELSE << >>]
  /\ pw = NoWindow
  /\ trace = << >>

\* syncItemAndNotes up to the assignment of item.zotero_note
syncItemAndNotes(item) ==
  /\ pc = "idle"
  /\ zotero_note' =
       [zotero_note EXCEPT ![item] = sanitize(concatNotes(getNotes(item)))]
  /\ pc' = "noted"
  /\ UNCHANGED <<lastCall, items, index, cur, pagesDB, linkPage, tagged,
                 attached, pw, trace>>

NoteNext == syncItemAndNotes("R1")

NoteSpec == NoteInit /\ [][NoteNext]_vars

\* the steps of a running job: each is the settling of the promise awaited
JobStep ==
  \/ prepareSyncJob
  \/ performItem
  \/ performDone
  \/ buildProperties
  \/ pagesUpdate
  \/ pagesCreate
  \/ saveNotionTag
  \/ saveNotionLinkAttachment

\* every awaited call settles: a running job is never left waiting for ever
LiveSpec == Spec /\ WF_vars(JobStep)

\* ------------------------------------------------------ reading the trace
Steps == 1..Len(items)

EventsOf(op, k) == SelectSeq(trace, LAMBDA e : e.op = op /\ e.step = k)

CountEv(op, k) == Len(EventsOf(op, k))

EvAt(op, k) == EventsOf(op, k)[1]

Pos(op, k) ==
  CHOOSE i \in DOMAIN trace : trace[i].op = op /\ trace[i].step = k

Started(k) == CountEv("updateText", k) > 0

Succeeded(res) == res \in {"full", "partial"}

SyncOps == {"zotero_note", "getNotionPageID", "buildProperties",
            "pages.update", "pages.create", "saveNotionTag",
            "saveNotionLinkAttachment"}

\* saveItemToDatabase of entry k has returned or raised
UpsertOver(k) ==
  k <= index \/ (k = index + 1 /\ pc \in {"tag", "link", "done"})

\* the entry whose processing raised, 0 if none did
FailedStep ==
  IF pc = "done" /\ pw.state = "failed" /\ index < Len(items)
     /\ Started(index + 1)
  THEN index + 1 ELSE 0

\* SyncJob was constructed: prepareSyncJob returned
Constructed ==
  \E i \in DOMAIN trace :
    trace[i].op = "databases.retrieve" /\ trace[i].res = "ok"

Orphan(e) == isNote(e) /\ ItemsGetOne(parentID(e)) = None

Covers(r, e) == e = r \/ (isNote(e) /\ parentID(e) = r)

PagesOf(r) ==
  {p \in DOMAIN pagesDB : pagesDB[p].live /\ pagesDB[p].owner = r}

LinkedPagesOf(r) == {p \in PagesOf(r) : pagesDB[p].linked}

SyncCount(r) ==
  Len(SelectSeq(trace, LAMBDA e : e.op = "getNotionPageID" /\ e.item = r))

WriteCount(r) ==
  Len(SelectSeq(trace, LAMBDA e : e.op \in {"pages.update", "pages.create"}
                                   /\ e.item = r /\ Succeeded(e.res)))

\* ------------------------------------------------------------------ claims

\* C1 as stated: every regular item has at most one existing remote page
\* that was created for it, in every reachable state.
C1_AtMostOnePage ==
  \A r \in RegularItems : Cardinality(PagesOf(r)) <= 1

\* C1 as amended: every item has at most one existing remote page to which
\* a back-link was ever saved; pages created by a sync that ended before the
\* back-link was saved (non-full-page response) can exist beside it.
C1_AtMostOneLinkedPage ==
  \A r \in LiveItems : Cardinality(LinkedPagesOf(r)) <= 1

C1_Witness ==
  \E r \in RegularItems :
    Cardinality(PagesOf(r)) >= 2 /\ Cardinality(LinkedPagesOf(r)) = 1

\* C2: when the sync of entry k raises, every entry before k was processed
\* fully (both progress steps; synced through to its back-link unless it is
\* a note without parent), entry k gets no updateProgress, no call or
\* progress update is ever made for an entry after k, and the failure the
\* progress window receives names entry k.
C2_FirstFailureStopsBatch ==
  /\ \A i \in DOMAIN trace : trace[i].step <= index + 1
  /\ LET k == FailedStep
     IN k # 0 =>
          /\ \A j \in 1..(k - 1) :
               /\ CountEv("updateText", j) = 1
               /\ CountEv("updateProgress", j) = 1
               /\ Orphan(items[j]) \/ CountEv("saveNotionLinkAttachment", j) = 1
          /\ CountEv("updateText", k) = 1
          /\ CountEv("updateProgress", k) = 0
          /\ pw.item = items[k]
          /\ trace[Len(trace)] = Ev("fail", 0, items[k], 0, pw.message)

C2_Witness ==
  /\ FailedStep = 2
  /\ Len(items) = 3
  /\ CountEv("saveNotionLinkAttachment", 1) = 1

NotFoundSteps ==
  {k \in Steps : \E i \in DOMAIN trace :
     /\ trace[i].op = "pages.update"
     /\ trace[i].step = k
     /\ trace[i].res = ObjectNotFound}

\* C3 as stated: after an update that fails with object-not-found,
\* saveItemToDatabase has issued exactly one update and exactly one create
\* and returns the create response without raising.
C3_StaleRecreateNeverRaises ==
  \A k \in NotFoundSteps :
    UpsertOver(k) =>
      /\ CountEv("pages.update", k) = 1
      /\ CountEv("pages.create", k) = 1
      /\ Succeeded(EvAt("pages.create", k).res)

\* C3 as amended: after an update that fails with object-not-found,
\* saveItemToDatabase issues exactly one update and then exactly one create
\* for the same item under the configured database; it returns the create
\* response when the create call succeeds, and raises only the create
\* call's own error, never the not-found error.
C3_StaleRecreate ==
  \A k \in NotFoundSteps :
    /\ CountEv("pages.update", k) = 1
    /\ UpsertOver(k) =>
         /\ CountEv("pages.create", k) = 1
         /\ Pos("pages.create", k) = Pos("pages.update", k) + 1
         /\ LET u == EvAt("pages.update", k)
                c == EvAt("pages.create", k)
            IN /\ c.db = databaseID
               /\ c.item = u.item
               /\ IF Succeeded(c.res)
                  THEN /\ (k = index + 1 /\ pc \in {"tag", "link"})
                            => cur.page = c.page /\ cur.full = (c.res = "full")
                       /\ CountEv("saveNotionLinkAttachment", k) = 1
                            => EvAt("saveNotionLinkAttachment", k).page = c.page
                  ELSE /\ k = index + 1
                       /\ pc = "done"
                       /\ pw.state = "failed"
                       /\ pw.message = c.res
                       /\ pw.message # ObjectNotFound

C3_Witness ==
  /\ pc = "tag"
  /\ index + 1 \in NotFoundSteps
  /\ CountEv("pages.create", index + 1) = 1

OtherErrorSteps ==
  {k \in Steps : \E i \in DOMAIN trace :
     /\ trace[i].op = "pages.update"
     /\ trace[i].step = k
     /\ ~Succeeded(trace[i].res)
     /\ trace[i].res # ObjectNotFound}

\* C4: when the update of an item with a stored page id fails with an error
\* other than object-not-found, that update is the only page call of the
\* entry (no create, no second update), and the job ends failed with that
\* same error as the message and the entry as the failing item.
C4_OtherUpdateErrorPropagates ==
  \A k \in OtherErrorSteps :
    /\ CountEv("pages.update", k) = 1
    /\ CountEv("pages.create", k) = 0
    /\ CountEv("saveNotionTag", k) = 0
    /\ EvAt("getNotionPageID", k).page = EvAt("pages.update", k).page
    /\ k = index + 1
    /\ pc = "done"
    /\ pw.state = "failed"
    /\ pw.message = EvAt("pages.update", k).res
    /\ pw.item = items[k]
    /\ Pos("pages.update", k) = Len(trace) - 1
    /\ trace[Len(trace)].op = "fail"

C4_Witness ==
  /\ pc = "done"
  /\ index + 1 \in OtherErrorSteps
  /\ EvAt("getNotionPageID", index + 1).page # 0

\* C5: when the item has a stored page id and that page still exists, the
\* upsert is exactly one update call with that page id and no create call.
C5_ExistingPageUpdatedOnce ==
  /\ (pc = "tag" /\ cur.pageID # 0 /\ PageExists(cur.pageID)) =>
       /\ CountEv("pages.update", index + 1) = 1
       /\ CountEv("pages.create", index + 1) = 0
       /\ EvAt("pages.update", index + 1).page = cur.pageID
       /\ Succeeded(EvAt("pages.update", index + 1).res)
       /\ cur.page = cur.pageID
  /\ \A i \in DOMAIN trace :
       (trace[i].op = "pages.update" /\ Succeeded(trace[i].res)) =>
         /\ CountEv("pages.update", trace[i].step) = 1
         /\ CountEv("pages.create", trace[i].step) = 0
         /\ trace[i].page = EvAt("getNotionPageID", trace[i].step).page
         /\ trace[i].page # 0

C5_Witness ==
  /\ pc = "tag"
  /\ cur.pageID # 0
  /\ PageExists(cur.pageID)
  /\ CountEv("pages.update", index + 1) = 1

\* C6: when the item has no stored page id, the upsert issues no update call
\* and exactly one create call.
C6_NoPageIDCreatesOnce ==
  \A k \in Steps :
    (CountEv("getNotionPageID", k) = 1 /\ EvAt("getNotionPageID", k).page = 0)
      => /\ CountEv("pages.update", k) = 0
         /\ CountEv("pages.create", k) <= 1
         /\ UpsertOver(k) => CountEv("pages.create", k) = 1

C6_Witness ==
  /\ pc = "tag"
  /\ cur.pageID = 0
  /\ CountEv("pages.create", index + 1) = 1
  /\ CountEv("pages.update", index + 1) = 0

\* C7 as stated: within one run of perform() every regular item is synced,
\* and successfully created or updated, at most once.
C7_OncePerItem ==
  \A r \in RegularItems : SyncCount(r) <= 1 /\ WriteCount(r) <= 1

\* C7 as amended: within one run of perform() a regular item is synced once
\* for every processed batch entry that is the item itself or one of its
\* child notes, and successfully created or updated at most that often; so
\* at most once only when the batch holds at most one such entry.
C7_OncePerCoveringEntry ==
  \A r \in RegularItems :
    /\ SyncCount(r) =
         Cardinality({k \in Steps : Started(k) /\ Covers(r, items[k])})
    /\ WriteCount(r) <= SyncCount(r)

C7_Witness ==
  \E r \in RegularItems : SyncCount(r) = 2 /\ WriteCount(r) = 2

\* C8: a batch entry that is a note whose parent resolves causes exactly one
\* sync, whose page id lookup, properties, page call and tag and back-link
\* writes all target the parent; no call or write ever targets a note.
C8_NoteSyncsParentOnly ==
  /\ \A k \in Steps :
       (Started(k) /\ isNote(items[k]) /\ ~Orphan(items[k])) =>
         /\ CountEv("getNotionPageID", k) = 1
         /\ CountEv("buildProperties", k) <= 1
         /\ CountEv("pages.update", k) + CountEv("pages.create", k) <= 2
         /\ \A i \in DOMAIN trace :
              (trace[i].step = k /\ trace[i].op \in SyncOps) =>
                trace[i].item = parentID(items[k])
  /\ \A i \in DOMAIN trace :
       trace[i].op \in SyncOps => trace[i].item \notin NoteItems
  /\ \A n \in NoteItems :
       linkPage[n] = 0 /\ ~tagged[n] /\ PagesOf(n) = {}

C8_Witness ==
  \E k \in Steps :
    /\ isNote(items[k])
    /\ ~Orphan(items[k])
    /\ CountEv("saveNotionLinkAttachment", k) = 1
    /\ EvAt("saveNotionLinkAttachment", k).item = parentID(items[k])

\* C9: a batch entry that is a note whose parent does not resolve gets its
\* two progress steps and nothing else, raises nothing, and the batch goes
\* on; a SyncJob whose batch holds only such entries ends complete with no
\* page create or update call.
C9_OrphanNoteSkipped ==
  /\ \A k \in Steps :
       (Started(k) /\ Orphan(items[k])) =>
         /\ SelectSeq(trace, LAMBDA e : e.step = k) =
              <<Ev("updateText", k, items[k], 0, "ok"),
                Ev("updateProgress", k, items[k], 0, "ok")>>
         /\ index >= k
         /\ FailedStep # k
  /\ (pc = "done" /\ Constructed /\ \A k \in Steps : Orphan(items[k])) =>
       /\ pw.state = "complete"
       /\ index = Len(items)
       /\ \A i \in DOMAIN trace :
            trace[i].op \notin {"pages.update", "pages.create"}

C9_Witness ==
  /\ pc = "done"
  /\ items = <<"O">>
  /\ pw.state = "complete"
  /\ CountEv("updateProgress", 1) = 1

TerminalCount ==
  Len(SelectSeq(trace, LAMBDA e : e.op \in {"complete", "fail"}))

C11_OneTerminalState ==
  /\ TerminalCount <= 1
  /\ pc = "done" <=> TerminalCount = 1
  /\ pc \in {"prepare", "loop", "build", "update", "create", "tag", "link"}
       => pw.state = "running"
  /\ pc = "done" =>
       /\ trace[Len(trace)].op = (IF pw.state = "complete" THEN "complete"
                                                          ELSE "fail")
       /\ pw.state \in {"complete", "failed"}
       /\ pw.state = "complete" <=>
            /\ Constructed
            /\ index = Len(items)
            /\ FailedStep = 0
            /\ \A k \in Steps : CountEv("updateProgress", k) = 1
       /\ pw.state = "failed" <=> (~Constructed \/ FailedStep # 0)
       /\ pw.state = "complete" =>
            Pos("updateProgress", Len(items)) = Len(trace) - 1

\* C11: once at least one item resolves, performSyncJob raises nothing to
\* its caller and ends in exactly one terminal progress state: the window
\* receives one of complete and fail, never both; complete exactly when
\* setup succeeded and every entry was processed without error, and only
\* after the last entry's updateProgress.
C11_AlwaysOneTerminalState ==
  /\ []C11_OneTerminalState
  /\ (pc = "prepare") ~> (pc = "done")

C11_Witness ==
  /\ pc = "done"
  /\ pw.state = "complete"
  /\ Len(items) = 3
  /\ CountEv("saveNotionLinkAttachment", 3) = 1

\* the error prepareSyncJob raised, "none" if it raised none so far
SetupError ==
  IF pc # "done" \/ Constructed THEN "none"
  ELSE IF \E i \in DOMAIN trace : trace[i].op = "databases.retrieve"
       THEN RetrieveError ELSE MissingPref

\* C12: when schema retrieval or the lookup of the required database-ID
\* preference fails, the job aborts before any entry: no updateText or
\* updateProgress, no page update or create, no tag or back-link write; the
\* progress window is failed with the cause's message and no failing item.
C12_SetupFailureAbortsBeforeItems ==
  ~Constructed =>
    /\ pc \in {"idle", "prepare", "done"}
    /\ index = 0
    /\ cur = NoCur
    /\ \A i \in DOMAIN trace :
         /\ trace[i].step = 0
         /\ trace[i].op \in {"ProgressWindow", "getNotionClient",
                             "databases.retrieve", "fail"}
    /\ pc = "done" =>
         /\ pw.state = "failed"
         /\ pw.item = None
         /\ pw.message = SetupError
         /\ trace[Len(trace)] = Ev("fail", 0, None, 0, SetupError)

C12_Witness ==
  /\ pc = "done"
  /\ ~Constructed
  /\ pw.message = RetrieveError
  /\ Len(items) = 3

\* the item's stored page id names a page that still exists
StoredLive(r) == linkPage[r] # 0 /\ PageExists(linkPage[r])

C13_TargetsStoredPage ==
  \A r \in RegularItems :
    /\ (pc = "update" /\ cur.target = r) => cur.pageID = linkPage[r]
    /\ (pc = "create" /\ cur.target = r) => ~StoredLive(r)
    /\ (pc \in {"tag", "link"} /\ cur.target = r /\ StoredLive(r))
         => cur.page = linkPage[r]

C13_StepKeepsPages ==
  \A r \in RegularItems :
    (StoredLive(r) /\ JobStep) =>
      /\ PagesOf(r)' = PagesOf(r)
      /\ linkPage'[r] = linkPage[r]
      /\ \A i \in (DOMAIN trace') \ (DOMAIN trace) :
           trace'[i].item = r =>
             /\ trace'[i].op # "pages.create"
             /\ trace'[i].op = "pages.update" => trace'[i].page = linkPage[r]

\* C13: re-running a sync is safe for an already-synced item: once a sync of
\* the item ended with a full-page response, so that its page id is stored,
\* a later sync of the item issues, while that page still exists, only an
\* update against that same page and never a create, and the set of remote
\* pages of the item is left unchanged.
C13_RerunUpdatesSamePage ==
  /\ []C13_TargetsStoredPage
  /\ [][C13_StepKeepsPages]_vars

C13_Witness ==
  /\ pc = "tag"
  /\ cur.target = "R1"
  /\ StoredLive("R1")
  /\ cur.page = linkPage["R1"]
  /\ index = 0
  /\ \A i \in DOMAIN trace : trace[i].op # "pages.create"
  /\ trace[Len(trace)].op = "pages.update"
  /\ Cardinality(PagesOf("R1")) = 1

\* the entries whose upsert returned a response that is not a full page
PartialSteps ==
  {k \in Steps : \E i \in DOMAIN trace :
     /\ trace[i].step = k
     /\ trace[i].op \in {"pages.update", "pages.create"}
     /\ trace[i].res = "partial"}

\* C14: when the upsert response is not a full page, syncRegularItem raises
\* at once with the read-content-capability message: no back-link is saved
\* for the item, the failure is reported for the batch entry being
\* processed, and no later batch entry is processed.
C14_PartialResponseFailsEntry ==
  \A k \in PartialSteps :
    /\ k = index + 1
    /\ pc \in {"tag", "done"}
    /\ CountEv("saveNotionLinkAttachment", k) = 0
    /\ CountEv("updateProgress", k) = 0
    /\ \A i \in DOMAIN trace : trace[i].step <= k
    /\ pc = "done" =>
         /\ pw.state = "failed"
         /\ pw.message = ReadContentMsg
         /\ pw.item = items[k]
         /\ trace[Len(trace)] = Ev("fail", 0, items[k], 0, ReadContentMsg)
         /\ trace[Len(trace) - 1].op = "saveNotionTag"
         /\ trace[Len(trace) - 1].step = k

C14_Witness ==
  /\ pc = "done"
  /\ 2 \in PartialSteps
  /\ Len(items) = 3
  /\ pw.item = items[2]
  /\ pw.message = ReadContentMsg

\* the failed entry is a note whose parent resolved and was synced instead
RedirectFailed ==
  /\ FailedStep # 0
  /\ isNote(items[FailedStep])
  /\ ItemsGetOne(parentID(items[FailedStep])) # None

\* C15 as stated: when the redirected sync of a note entry's parent raises,
\* the failing item reported to the progress window is the parent.
C15_FailureNamesParent ==
  RedirectFailed => pw.item = ItemsGetOne(parentID(items[FailedStep]))

\* C15: when a batch entry is a note whose parent resolves and the
\* redirected sync of the parent raises, the error wrapper carries the
\* entry being iterated: the failing item reported to the progress window
\* is the note entry, not the parent that was being synced.
C15_FailureNamesNoteEntry ==
  RedirectFailed =>
    /\ pw.item = items[FailedStep]
    /\ pw.item # ItemsGetOne(parentID(items[FailedStep]))
    /\ trace[Len(trace)].op = "fail"
    /\ trace[Len(trace)].item = items[FailedStep]
    /\ \A i \in DOMAIN trace :
         (trace[i].step = FailedStep /\ trace[i].op \in SyncOps)
           => trace[i].item = ItemsGetOne(parentID(items[FailedStep]))

C15_Witness ==
  /\ RedirectFailed
  /\ pw.item = "N1"
  /\ CountEv("pages.update", FailedStep) = 1
  /\ EvAt("pages.update", FailedStep).item = "R1"

\* positions in the trace of the calls made for entry k
PosOf(k) == {i \in DOMAIN trace : trace[i].step = k}

\* C16: progress steps are 1-indexed in input order: for each entry k,
\* updateText(k) is reported before any remote call or store write made for
\* the entry and updateProgress(k) after all of them; updateProgress(k) is
\* reported only if entry k was processed without error; updateText(k + 1)
\* is never reported before updateProgress(k).
C16_ProgressBracketsEntry ==
  /\ \A i \in DOMAIN trace : trace[i].step \in 0..Len(items)
  /\ \A k \in Steps :
       /\ CountEv("updateText", k) <= 1
       /\ CountEv("updateProgress", k) <= 1
       /\ PosOf(k) # {} => Started(k)
       /\ Started(k) =>
            /\ EvAt("updateText", k).item = items[k]
            /\ \A i \in PosOf(k) : Pos("updateText", k) <= i
            /\ k <= index + 1
       /\ CountEv("updateProgress", k) = 1 <=> k <= index
       /\ CountEv("updateProgress", k) = 1 =>
            /\ k # FailedStep
            /\ EvAt("updateProgress", k).item = items[k]
            /\ \A i \in PosOf(k) : i <= Pos("updateProgress", k)
       /\ (k > 1 /\ Started(k)) =>
            /\ CountEv("updateProgress", k - 1) = 1
            /\ Pos("updateProgress", k - 1) < Pos("updateText", k)

C16_Witness ==
  /\ pc = "loop"
  /\ index = 3
  /\ CountEv("pages.create", 2) = 1
  /\ CountEv("saveNotionLinkAttachment", 2) = 1
  /\ CountEv("pages.update", 3) = 1
  /\ CountEv("updateProgress", 3) = 1

\* the text syncItemAndNotes computes from the notes attached to an item
NotesRead(item) == sanitize(concatNotes(getNotes(item)))

\* C17: in every per-item sync the notes are concatenated before the page
\* write: the item's note field is assigned from its attached notes before
\* the page id lookup, before the properties are built and before any page
\* update or create for the item, so the properties sent in the write are
\* those of the notes read in the same sync.
C17_NotesBeforePageWrite ==
  /\ \A k \in Steps :
       (\E i \in PosOf(k) : trace[i].op \in SyncOps) =>
         /\ CountEv("zotero_note", k) = 1
         /\ CountEv("getNotionPageID", k) = 1
         /\ CountEv("buildProperties", k) <= 1
         /\ EvAt("zotero_note", k).item = EvAt("getNotionPageID", k).item
         /\ Pos("zotero_note", k) < Pos("getNotionPageID", k)
         /\ \A i \in PosOf(k) :
              /\ trace[i].op = "buildProperties"
                   => Pos("getNotionPageID", k) < i
              /\ trace[i].op \in {"pages.update", "pages.create"}
                   => /\ CountEv("buildProperties", k) = 1
                      /\ Pos("buildProperties", k) < i
                      /\ trace[i].item = EvAt("zotero_note", k).item
  /\ pc \in {"build", "update", "create", "tag", "link"} =>
       zotero_note[cur.target] = NotesRead(cur.target)
  /\ pc \in {"update", "create", "tag", "link"} =>
       cur.note = NotesRead(cur.target)
  /\ (pc = "tag" /\ PageExists(cur.page)) =>
       pagesDB[cur.page].note = NotesRead(cur.target)

C17_Witness ==
  /\ pc = "tag"
  /\ cur.target = "R1"
  /\ PageExists(cur.page)
  /\ pagesDB[cur.page].note = NotesRead("R1")
  /\ Len(NotesRead("R1")) > 2
  /\ CountEv("pages.create", index + 1) = 1

\* the notes of a listing that resolve, in listing order
Resolving(noteIDs) == SelectSeq(noteIDs, LAMBDA n : ItemsGetOne(n) # None)

\* the content of a note without its markup
PlainText(note) == SelectSeq(getNote(note), LAMBDA t : t \notin Tags)

\* the plain texts with the separator between consecutive notes
RECURSIVE Separated(_)
Separated(notes) ==
  IF notes = << >> THEN << >>
  ELSE IF Len(notes) = 1 THEN PlainText(notes[1])
  ELSE PlainText(Head(notes)) \o SEPARATOR \o Separated(Tail(notes))

\* the plain texts, each followed by the separator
RECURSIVE Terminated(_)
Terminated(notes) ==
  IF notes = << >> THEN << >>
  ELSE PlainText(Head(notes)) \o SEPARATOR \o Terminated(Tail(notes))

\* C18 as stated: the stored text is the plain text of the resolving notes
\* in listing order, with the separator between consecutive notes.
C18_SeparatorBetweenNotes ==
  pc = "noted" => zotero_note["R1"] = Separated(Resolving(attached["R1"]))

\* C18: the text stored on the item's note field is, for each note that
\* resolves, in listing order, the note's plain text followed by the
\* separator, the last note included; when the first resolving note has no
\* content at all the text starts at the dashes of its separator, the line
\* break before them being dropped; notes that do not resolve contribute
\* nothing, and without a resolving note the text is empty.
C18_SeparatorAfterEachNote ==
  pc = "noted" =>
    LET notes == Resolving(attached["R1"])
        text  == Terminated(notes)
    IN /\ zotero_note["R1"] =
            IF notes # << >> /\ getNote(notes[1]) = << >>
            THEN Tail(text) ELSE text
       /\ notes = << >> => zotero_note["R1"] = << >>
       /\ \A i \in DOMAIN zotero_note["R1"] : zotero_note["R1"][i] \notin Tags

C18_Witness ==
  /\ pc = "noted"
  /\ attached["R1"] = <<"E", "G", "N1">>
  /\ zotero_note["R1"] = <<"---", "\n", "a", "\n", "---", "\n">>

\* calls to the remote API
RemoteOps == {"databases.retrieve", "pages.update", "pages.create"}

\* the error of trace entry i ended the job: the failure report follows it
Unrecovered(i) ==
  /\ trace[i].op \in RemoteOps \cup {"saveNotionTag"}
  /\ trace[i + 1].op = "fail"

\* C19: within a job the entries are processed strictly one after the
\* other: the job is at one place at a time, so at most one remote call is
\* pending; no call or write for entry k + 1 is made before every call and
\* write of entry k is over; and a job stops before its last entry only at
\* its first unrecovered error.
C19_StrictlySequential ==
  /\ \A i, j \in DOMAIN trace :
       (i < j /\ trace[j].step > 0) => trace[i].step <= trace[j].step
  /\ \A k \in Steps :
       (k > 1 /\ PosOf(k) # {}) =>
         /\ CountEv("updateProgress", k - 1) = 1
         /\ \A i \in PosOf(k - 1) : \A j \in PosOf(k) : i < j
  /\ \A i \in DOMAIN trace :
       /\ (trace[i].op \in RemoteOps /\ i < Len(trace)
           /\ ~Succeeded(trace[i].res) /\ trace[i].res # "ok") =>
            \/ /\ trace[i].op = "pages.update"
               /\ trace[i].res = ObjectNotFound
               /\ trace[i + 1].op = "pages.create"
               /\ trace[i + 1].step = trace[i].step
            \/ /\ Unrecovered(i)
               /\ i + 1 = Len(trace)
       /\ trace[i].op = "fail" => i = Len(trace)
  /\ (pc = "done" /\ index < Len(items)) =>
       /\ pw.state = "failed"
       /\ Len(trace) > 1
       /\ Unrecovered(Len(trace) - 1) \/ ~Constructed
       /\ \A i \in DOMAIN trace : trace[i].step <= index + 1
  /\ pw.state = "complete" => index = Len(items)

C19_Witness ==
  /\ pc = "done"
  /\ Len(items) = 3
  /\ index = 1
  /\ CountEv("pages.update", 1) = 1
  /\ EvAt("pages.update", 1).res = ObjectNotFound
  /\ CountEv("pages.create", 1) = 1
  /\ CountEv("pages.create", 2) = 1
  /\ EvAt("pages.create", 2).res = OtherAPIError

\* trace entry i is an upsert call that returned a response
Upserted(i) ==
  /\ trace[i].op \in {"pages.update", "pages.create"}
  /\ Succeeded(trace[i].res)

\* C20: in every per-item sync the synced tag is written exactly when the
\* upsert returned a response, whatever its shape, and before the back-link
\* write: a saved back-link implies the tag was saved earlier in the same
\* sync, no tag is written when the upsert raises, and an item whose sync
\* fails for a non-full-page response is tagged and has no back-link saved
\* by that sync.
C20_TagFollowsUpsert ==
  /\ \A i \in DOMAIN trace :
       /\ Upserted(i) =>
            \/ i = Len(trace) /\ pc = "tag"
            \/ /\ i < Len(trace)
               /\ trace[i + 1].op = "saveNotionTag"
               /\ trace[i + 1].step = trace[i].step
               /\ trace[i + 1].item = trace[i].item
       /\ trace[i].op = "saveNotionTag" =>
            /\ i > 1
            /\ Upserted(i - 1)
            /\ trace[i - 1].step = trace[i].step
            /\ tagged[trace[i].item]
       /\ trace[i].op = "saveNotionLinkAttachment" =>
            /\ i > 1
            /\ trace[i - 1].op = "saveNotionTag"
            /\ trace[i - 1].step = trace[i].step
            /\ trace[i - 1].item = trace[i].item
            /\ trace[i - 2].res = "full"
  /\ \A k \in Steps :
       /\ CountEv("saveNotionTag", k) <= 1
       /\ (UpsertOver(k) /\ ~\E i \in PosOf(k) : Upserted(i)) =>
            CountEv("saveNotionTag", k) = 0
       /\ (k \in PartialSteps /\ pc = "done") =>
            /\ CountEv("saveNotionTag", k) = 1
            /\ tagged[EvAt("saveNotionTag", k).item]
            /\ CountEv("saveNotionLinkAttachment", k) = 0

C20_Witness ==
  /\ pc = "done"
  /\ 1 \in PartialSteps
  /\ items[1] = "R2"
  /\ tagged["R2"]
  /\ linkPage["R2"] = 0
  /\ CountEv("saveNotionTag", 1) = 1
  /\ pw.message = ReadContentMsg

====
